---- MODULE Spec2Model ----
(***************************************************************************)
(* A model of the rust-cgi library: cgi::handle (src/src/lib.rs), the      *)
(* request builder parse_request, the serializer serialize_response, the   *)
(* response shortcuts, and the dispatch closure generated by #[cgi::main]  *)
(* (src/macro/src/lib.rs).                                                  *)
(*                                                                         *)
(* Strings are sequences of bytes (Rust strings are UTF-8), so ordering,   *)
(* trimming, lower-casing and byte counts are those of the code.  An       *)
(* Option is None == <<>> or Some(v) == <<v>>.  A HashMap<String,String>   *)
(* is a function whose DOMAIN is the set of keys present.                  *)
(***************************************************************************)
EXTENDS Integers, Sequences, FiniteSets, TLC

VARIABLES
    pc,              \* position in handle(): start, env, read, built, handled, serialized, done, fatal
    environ,         \* the process environment (std::env::vars())
    stdin_stream,    \* the bytes still unread on stdin
    consumed,        \* number of bytes taken from stdin so far
    wrapper,         \* "plain": cgi::handle(inner_main); "result": the Result-catching closure
    env_vars,        \* handle's local env_vars
    stdin_contents,  \* handle's local stdin_contents
    request,         \* Option<Request>: the value parse_request returned
    handler_result,  \* Option of what inner_main returned: [kind |-> "ok"/"err", ...]
    response,        \* Option<Response>: the value handed to serialize_response
    output,          \* Option<Vec<u8>>: the value serialize_response returned
    stdout,          \* the bytes written to stdout
    stderr,          \* the lines written to stderr
    trace,           \* the steps of handle() performed so far, in order
    fatal            \* Option<reason>: why the process panicked

vars == <<pc, environ, stdin_stream, consumed, wrapper, env_vars, stdin_contents,
          request, handler_result, response, output, stdout, stderr, trace, fatal>>

None == <<>>
Some(v) == <<v>>

(***************************************************************************)
(* Bounds of the model.                                                    *)
(***************************************************************************)
MaxStdin == 3
MaxRespHeaders == 3
MaxBodyChars == 6

(***************************************************************************)
(* String helpers (std).                                                   *)
(***************************************************************************)
StartsWith(s, p) == Len(s) >= Len(p) /\ SubSeq(s, 1, Len(p)) = p

ToAsciiLower(b) == IF b \in 65..90 THEN b + 32 ELSE b

Lower(s) == [i \in 1..Len(s) |-> ToAsciiLower(s[i])]

\* char::is_whitespace on the ASCII range: \t \n \x0b \x0c \r and space
IsWhitespace(b) == b \in 9..13 \/ b = 32

\* str::trim: strip leading and trailing whitespace
Trim(s) ==
    LET keep == {i \in 1..Len(s) : ~IsWhitespace(s[i])}
    IN  IF keep = {} THEN <<>>
        ELSE LET first == CHOOSE i \in keep : \A j \in keep : i <= j
                 last  == CHOOSE i \in keep : \A j \in keep : j <= i
             IN  SubSeq(s, first, last)

\* byte-wise lexicographic order of two strings (Ord for str)
RECURSIVE StrLess(_, _)
StrLess(a, b) ==
    IF b = <<>> THEN FALSE
    ELSE IF a = <<>> THEN TRUE
    ELSE IF a[1] # b[1] THEN a[1] < b[1]
    ELSE StrLess(Tail(a), Tail(b))

(***************************************************************************)
(* Names of the meta-variables and the protocol strings of parse_request.  *)
(***************************************************************************)
REQUEST_METHOD == <<82, 69, 81, 85, 69, 83, 84, 95, 77, 69, 84, 72, 79, 68>> (* 'REQUEST_METHOD' *)
SCRIPT_NAME == <<83, 67, 82, 73, 80, 84, 95, 78, 65, 77, 69>> (* 'SCRIPT_NAME' *)
PATH_INFO == <<80, 65, 84, 72, 95, 73, 78, 70, 79>> (* 'PATH_INFO' *)
QUERY_STRING == <<81, 85, 69, 82, 89, 95, 83, 84, 82, 73, 78, 71>> (* 'QUERY_STRING' *)
SERVER_PROTOCOL == <<83, 69, 82, 86, 69, 82, 95, 80, 82, 79, 84, 79, 67, 79, 76>> (* 'SERVER_PROTOCOL' *)
CONTENT_LENGTH == <<67, 79, 78, 84, 69, 78, 84, 95, 76, 69, 78, 71, 84, 72>> (* 'CONTENT_LENGTH' *)
REMOTE_USER == <<82, 69, 77, 79, 84, 69, 95, 85, 83, 69, 82>> (* 'REMOTE_USER' *)
HTTP_PREFIX == <<72, 84, 84, 80, 95>> (* 'HTTP_' *)

ProtocolTable ==
    << <<<<72, 84, 84, 80, 47, 48, 46, 57>> (* 'HTTP/0.9' *), "HTTP_09">>,
       <<<<72, 84, 84, 80, 47, 49, 46, 48>> (* 'HTTP/1.0' *), "HTTP_10">>,
       <<<<72, 84, 84, 80, 47, 49, 46, 49>> (* 'HTTP/1.1' *), "HTTP_11">>,
       <<<<72, 84, 84, 80, 47, 50, 46, 48>> (* 'HTTP/2.0' *), "HTTP_2">> >>

\* the sixteen add_header calls, in the order of the code
CgiHeaderTable ==
    << <<<<65, 85, 84, 72, 95, 84, 89, 80, 69>> (* 'AUTH_TYPE' *), <<88, 45, 67, 71, 73, 45, 65, 117, 116, 104, 45, 84, 121, 112, 101>> (* 'X-CGI-Auth-Type' *)>>,
       <<CONTENT_LENGTH, <<88, 45, 67, 71, 73, 45, 67, 111, 110, 116, 101, 110, 116, 45, 76, 101, 110, 103, 116, 104>> (* 'X-CGI-Content-Length' *)>>,
       <<<<67, 79, 78, 84, 69, 78, 84, 95, 84, 89, 80, 69>> (* 'CONTENT_TYPE' *), <<88, 45, 67, 71, 73, 45, 67, 111, 110, 116, 101, 110, 116, 45, 84, 121, 112, 101>> (* 'X-CGI-Content-Type' *)>>,
       <<<<71, 65, 84, 69, 87, 65, 89, 95, 73, 78, 84, 69, 82, 70, 65, 67, 69>> (* 'GATEWAY_INTERFACE' *), <<88, 45, 67, 71, 73, 45, 71, 97, 116, 101, 119, 97, 121, 45, 73, 110, 116, 101, 114, 102, 97, 99, 101>> (* 'X-CGI-Gateway-Interface' *)>>,
       <<PATH_INFO, <<88, 45, 67, 71, 73, 45, 80, 97, 116, 104, 45, 73, 110, 102, 111>> (* 'X-CGI-Path-Info' *)>>,
       <<<<80, 65, 84, 72, 95, 84, 82, 65, 78, 83, 76, 65, 84, 69, 68>> (* 'PATH_TRANSLATED' *), <<88, 45, 67, 71, 73, 45, 80, 97, 116, 104, 45, 84, 114, 97, 110, 115, 108, 97, 116, 101, 100>> (* 'X-CGI-Path-Translated' *)>>,
       <<QUERY_STRING, <<88, 45, 67, 71, 73, 45, 81, 117, 101, 114, 121, 45, 83, 116, 114, 105, 110, 103>> (* 'X-CGI-Query-String' *)>>,
       <<<<82, 69, 77, 79, 84, 69, 95, 65, 68, 68, 82>> (* 'REMOTE_ADDR' *), <<88, 45, 67, 71, 73, 45, 82, 101, 109, 111, 116, 101, 45, 65, 100, 100, 114>> (* 'X-CGI-Remote-Addr' *)>>,
       <<<<82, 69, 77, 79, 84, 69, 95, 72, 79, 83, 84>> (* 'REMOTE_HOST' *), <<88, 45, 67, 71, 73, 45, 82, 101, 109, 111, 116, 101, 45, 72, 111, 115, 116>> (* 'X-CGI-Remote-Host' *)>>,
       <<<<82, 69, 77, 79, 84, 69, 95, 73, 68, 69, 78, 84>> (* 'REMOTE_IDENT' *), <<88, 45, 67, 71, 73, 45, 82, 101, 109, 111, 116, 101, 45, 73, 100, 101, 110, 116>> (* 'X-CGI-Remote-Ident' *)>>,
       <<REMOTE_USER, <<88, 45, 67, 71, 73, 45, 82, 101, 109, 111, 116, 101, 45, 85, 115, 101, 114>> (* 'X-CGI-Remote-User' *)>>,
       <<REQUEST_METHOD, <<88, 45, 67, 71, 73, 45, 82, 101, 113, 117, 101, 115, 116, 45, 77, 101, 116, 104, 111, 100>> (* 'X-CGI-Request-Method' *)>>,
       <<SCRIPT_NAME, <<88, 45, 67, 71, 73, 45, 83, 99, 114, 105, 112, 116, 45, 78, 97, 109, 101>> (* 'X-CGI-Script-Name' *)>>,
       <<<<83, 69, 82, 86, 69, 82, 95, 80, 79, 82, 84>> (* 'SERVER_PORT' *), <<88, 45, 67, 71, 73, 45, 83, 101, 114, 118, 101, 114, 45, 80, 111, 114, 116>> (* 'X-CGI-Server-Port' *)>>,
       <<SERVER_PROTOCOL, <<88, 45, 67, 71, 73, 45, 83, 101, 114, 118, 101, 114, 45, 80, 114, 111, 116, 111, 99, 111, 108>> (* 'X-CGI-Server-Protocol' *)>>,
       <<<<83, 69, 82, 86, 69, 82, 95, 83, 79, 70, 84, 87, 65, 82, 69>> (* 'SERVER_SOFTWARE' *), <<88, 45, 67, 71, 73, 45, 83, 101, 114, 118, 101, 114, 45, 83, 111, 102, 116, 119, 97, 114, 101>> (* 'X-CGI-Server-Software' *)>> >>

(***************************************************************************)
(* The http crate's types as parse_request uses them.                      *)
(***************************************************************************)
\* a token character: what http accepts in a method and in a header name
IsTchar(b) ==
    \/ b \in 48..57 \/ b \in 65..90 \/ b \in 97..122
    \/ b \in {33, 35, 36, 37, 38, 39, 42, 43, 45, 46, 94, 95, 96, 124, 126}

IsToken(s) == Len(s) > 0 /\ \A i \in 1..Len(s) : IsTchar(s[i])

\* a byte a HeaderValue accepts: visible ASCII, space, tab, and obs-text
IsHeaderValueByte(b) == (b >= 32 /\ b # 127) \/ b = 9

IsHeaderValue(s) == \A i \in 1..Len(s) : IsHeaderValueByte(s[i])

\* bytes a URI path accepts unencoded
IsPathByte(b) ==
    \/ b = 33 \/ b \in 36..59 \/ b = 61 \/ b \in 64..95 \/ b \in 97..122
    \/ b = 124 \/ b = 126 \/ b \in {34, 123, 125}

\* bytes a URI query accepts unencoded
IsQueryByte(b) == b = 33 \/ b \in 36..59 \/ b = 61 \/ b \in 63..126

\* the position of the first byte of s that is in set, or Len(s)+1
FirstIn(s, set) ==
    LET hits == {i \in 1..Len(s) : s[i] \in set}
    IN  IF hits = {} THEN Len(s) + 1 ELSE CHOOSE i \in hits : \A j \in hits : i <= j

\* Uri::try_from(&str) followed by Uri::path() and Uri::query(): the origin
\* form ("/path?query#fragment") and the authority form (no '/', '?', '#');
\* schemes and the characters ':' '@' '[' are outside the inputs modelled
ParseUri(s) ==
    IF Len(s) = 0 THEN [ok |-> FALSE, path |-> <<>>, query |-> None]
    ELSE IF s[1] # 47
    THEN [ok |-> FirstIn(s, {47, 63, 35}) > Len(s)
                 /\ \A i \in 1..Len(s) :
                        s[i] \in 48..57 \/ s[i] \in 65..90 \/ s[i] \in 97..122 \/ s[i] \in {45, 46},
          path |-> <<>>, query |-> None]
    ELSE LET pend  == FirstIn(s, {63, 35})
             path  == SubSeq(s, 1, pend - 1)
             hasq  == pend <= Len(s) /\ s[pend] = 63
             rest  == SubSeq(s, pend + 1, Len(s))
             qend  == FirstIn(rest, {35})
             query == SubSeq(rest, 1, qend - 1)
         IN  [ok |-> /\ \A i \in 1..Len(path) : IsPathByte(path[i])
                     /\ hasq => \A i \in 1..Len(query) : IsQueryByte(query[i]),
              path |-> path,
              query |-> IF hasq THEN Some(query) ELSE None]

\* http::request::Builder::new(): the default parts, no error yet
NewBuilder ==
    [err |-> FALSE, method |-> <<71, 69, 84>> (* 'GET' *), path |-> <<47>> (* '/' *), query |-> None,
     version |-> "HTTP_11", headers |-> <<>>, path_info |-> None]

\* Builder::method(&str)
BuilderMethod(b, m) ==
    IF b.err THEN b
    ELSE IF ~IsToken(m) THEN [b EXCEPT !.err = TRUE]
    ELSE [b EXCEPT !.method = m]

\* Builder::uri(&str)
BuilderUri(b, uri) ==
    LET u == ParseUri(uri)
    IN  IF b.err THEN b
        ELSE IF ~u.ok THEN [b EXCEPT !.err = TRUE]
        ELSE [b EXCEPT !.path = u.path, !.query = u.query]

\* Builder::version
BuilderVersion(b, v) == IF b.err THEN b ELSE [b EXCEPT !.version = v]

\* mutant: HeaderMap::insert, which replaces the values already under the name
BuilderHeaderInsert(b, name, value) ==
    IF b.err THEN b
    ELSE IF ~IsToken(name) \/ ~IsHeaderValue(value) THEN [b EXCEPT !.err = TRUE]
    ELSE [b EXCEPT !.headers =
            Append(SelectSeq(@, LAMBDA e : e.name # Lower(name)),
                   [name |-> Lower(name), value |-> value])]

\* Builder::header(name, value): HeaderMap::append, which keeps every value
\* of a name; a HeaderName is stored lower-cased
BuilderHeader(b, name, value) ==
    IF b.err THEN b
    ELSE IF ~IsToken(name) \/ ~IsHeaderValue(value) THEN [b EXCEPT !.err = TRUE]
    ELSE [b EXCEPT !.headers = Append(@, [name |-> Lower(name), value |-> value])]

\* Builder::extension(PathInfo(..))
BuilderExtension(b, p) == IF b.err THEN b ELSE [b EXCEPT !.path_info = Some(p)]

\* HeaderMap::get(name): the first value stored under the name
HeaderGet(headers, name) ==
    LET hits == {i \in 1..Len(headers) : headers[i].name = Lower(name)}
    IN  IF hits = {} THEN None
        ELSE Some(headers[CHOOSE i \in hits : \A j \in hits : i <= j].value)

(***************************************************************************)
(* parse_request                                                           *)
(***************************************************************************)
\* env_vars.get(k).map(|p| p.as_str()).unwrap_or("")
GetOrEmpty(env, k) == IF k \in DOMAIN env THEN env[k] ELSE <<>>

\* the uri string: SCRIPT_NAME, PATH_INFO, and "?" QUERY_STRING when non-empty
BuildUri(env) ==
    LET uri == env[SCRIPT_NAME] \o GetOrEmpty(env, PATH_INFO)
        query_string == GetOrEmpty(env, QUERY_STRING)
    IN  IF query_string # <<>> THEN uri \o <<63>> (* '?' *) \o query_string ELSE uri

\* mutant: a value outside the table leaves the version unset instead of panicking
ParseVersionLenient(env) ==
    IF SERVER_PROTOCOL \notin DOMAIN env THEN [panic |-> FALSE, version |-> None]
    ELSE LET hits == {i \in 1..Len(ProtocolTable) : ProtocolTable[i][1] = env[SERVER_PROTOCOL]}
         IN  IF hits = {} THEN [panic |-> FALSE, version |-> None]
             ELSE [panic |-> FALSE, version |-> Some(ProtocolTable[CHOOSE i \in hits : TRUE][2])]

\* the SERVER_PROTOCOL chain: Some(version), None when the variable is
\* absent, and "unimplemented" for any other value
ParseVersion(env) ==
    IF SERVER_PROTOCOL \notin DOMAIN env THEN [panic |-> FALSE, version |-> None]
    ELSE LET hits == {i \in 1..Len(ProtocolTable) : ProtocolTable[i][1] = env[SERVER_PROTOCOL]}
         IN  IF hits = {} THEN [panic |-> TRUE, version |-> None]
             ELSE [panic |-> FALSE, version |-> Some(ProtocolTable[CHOOSE i \in hits : TRUE][2])]

HttpKeys(env) == {k \in DOMAIN env : StartsWith(k, HTTP_PREFIX)}

\* key.chars().skip(5).map(|c| if c == '_' { '-' } else { c }).collect()
DeriveHeaderName(key) ==
    [i \in 1..(Len(key) - 5) |-> IF key[i + 5] = 95 THEN 45 ELSE key[i + 5]]

\* the loop over the HTTP_ keys, in the order the HashMap yields them
RECURSIVE AddHttpHeaders(_, _, _)
AddHttpHeaders(b, env, order) ==
    IF order = <<>> THEN b
    ELSE AddHttpHeaders(BuilderHeader(b, DeriveHeaderName(Head(order)), Trim(env[Head(order)])),
                        env, Tail(order))

add_header(req, env, meta_var, target_header) ==
    IF meta_var \in DOMAIN env THEN BuilderHeader(req, target_header, env[meta_var]) ELSE req

RECURSIVE AddCgiHeaders(_, _, _)
AddCgiHeaders(b, env, i) ==
    IF i > Len(CgiHeaderTable) THEN b
    ELSE AddCgiHeaders(add_header(b, env, CgiHeaderTable[i][1], CgiHeaderTable[i][2]), env, i + 1)

Panic(reason) == [ok |-> FALSE, panic |-> reason, req |-> None]

\* mutant: a missing REQUEST_METHOD defaults to GET
MethodLookupDefault(env) ==
    IF REQUEST_METHOD \in DOMAIN env THEN Some(env[REQUEST_METHOD]) ELSE Some(<<71, 69, 84>> (* 'GET' *))

\* env_vars.get("REQUEST_METHOD"), which parse_request then expect()s
MethodLookup(env) == IF REQUEST_METHOD \in DOMAIN env THEN Some(env[REQUEST_METHOD]) ELSE None

\* parse_request(env_vars, stdin); order is the iteration order of
\* env_vars.keys() restricted to the HTTP_ keys
parse_request(env, stdin, order) ==
    IF MethodLookup(env) = None THEN Panic("no REQUEST_METHOD set")
    ELSE IF SCRIPT_NAME \notin DOMAIN env THEN Panic("no SCRIPT_NAME")
    ELSE LET v  == ParseVersion(env)
             b1 == BuilderMethod(NewBuilder, MethodLookup(env)[1])
             b2 == BuilderUri(b1, BuildUri(env))
             b3 == IF v.version # None THEN BuilderVersion(b2, v.version[1]) ELSE b2
             b4 == AddHttpHeaders(b3, env, order)
             b5 == AddCgiHeaders(b4, env, 1)
             b6 == IF PATH_INFO \in DOMAIN env THEN BuilderExtension(b5, env[PATH_INFO]) ELSE b5
         IN  IF v.panic THEN Panic("unsupported SERVER_PROTOCOL")
             ELSE IF b6.err THEN Panic("request builder error")
             ELSE [ok |-> TRUE, panic |-> "",
                   req |-> Some([method |-> b6.method, path |-> b6.path, query |-> b6.query,
                                 version |-> b6.version, headers |-> b6.headers,
                                 path_info |-> b6.path_info, body |-> stdin])]

\* the orders in which a HashMap may yield a set of keys
Orders(S) ==
    {o \in [1..Cardinality(S) -> S] : \A i, j \in 1..Cardinality(S) : i # j => o[i] # o[j]}

(***************************************************************************)
(* Responses: the http crate's response builder, the shortcuts, and        *)
(* serialize_response.                                                     *)
(***************************************************************************)
CONTENT_TYPE_NAME == <<99, 111, 110, 116, 101, 110, 116, 45, 116, 121, 112, 101>> (* 'content-type' *)
CONTENT_LENGTH_NAME == <<99, 111, 110, 116, 101, 110, 116, 45, 108, 101, 110, 103, 116, 104>> (* 'content-length' *)
TEXT_HTML == <<116, 101, 120, 116, 47, 104, 116, 109, 108, 59, 32, 99, 104, 97, 114, 115, 101, 116, 61, 117, 116, 102, 45, 56>> (* 'text/html; charset=utf-8' *)
TEXT_PLAIN == <<116, 101, 120, 116, 47, 112, 108, 97, 105, 110, 59, 32, 99, 104, 97, 114, 115, 101, 116, 61, 117, 116, 102, 45, 56>> (* 'text/plain; charset=utf-8' *)
STATUS_PREFIX == <<83, 116, 97, 116, 117, 115, 58, 32>> (* 'Status: ' *)

\* format!("{}", n) of an unsigned integer: its decimal digits
RECURSIVE ToDecimal(_)
ToDecimal(n) == IF n < 10 THEN <<48 + n>> ELSE Append(ToDecimal(n \div 10), 48 + (n % 10))

\* StatusCode::try_from: a code from 100 to 999
IsStatusCode(code) == code \in 100..999

\* StatusCode::canonical_reason, for the codes the model uses
CanonicalReason(code) ==
    CASE code = 200 -> Some(<<79, 75>> (* 'OK' *))
      [] code = 404 -> Some(<<78, 111, 116, 32, 70, 111, 117, 110, 100>> (* 'Not Found' *))
      [] code = 500 -> Some(<<73, 110, 116, 101, 114, 110, 97, 108, 32, 83, 101, 114, 118, 101, 114, 32, 69, 114, 114, 111, 114>> (* 'Internal Server Error' *))
      [] OTHER -> None

\* http::response::Builder::new().status(code)
ResponseBuilder(code) ==
    [err |-> ~IsStatusCode(code), status |-> code, headers |-> <<>>]

\* response::Builder::header(name, value): HeaderMap::append
ResponseHeader(b, name, value) ==
    IF b.err THEN b
    ELSE IF ~IsToken(name) \/ ~IsHeaderValue(value) THEN [b EXCEPT !.err = TRUE]
    ELSE [b EXCEPT !.headers = Append(@, [name |-> Lower(name), value |-> value])]

\* Builder::body(body).unwrap(): None stands for the panic of unwrap
ResponseBody(b, body) ==
    IF b.err THEN None
    ELSE Some([status |-> b.status, headers |-> b.headers, body |-> body])

empty_response(status_code) == ResponseBody(ResponseBuilder(status_code), <<>>)

\* mutant: the number of characters, not of bytes (UTF-8 continuation bytes not counted)
BodyLenChars(body) == Cardinality({i \in 1..Len(body) : body[i] \notin 128..191})

\* body.len() of the Vec<u8>: the number of bytes
BodyLen(body) == Len(body)

html_response(status_code, body) ==
    ResponseBody(
        ResponseHeader(
            ResponseHeader(ResponseBuilder(status_code), CONTENT_TYPE_NAME, TEXT_HTML),
            CONTENT_LENGTH_NAME, ToDecimal(BodyLen(body))),
        body)

string_response(status_code, body) ==
    ResponseBody(
        ResponseHeader(ResponseBuilder(status_code), CONTENT_LENGTH_NAME, ToDecimal(BodyLen(body))),
        body)

text_response(status_code, body) ==
    ResponseBody(
        ResponseHeader(
            ResponseHeader(ResponseBuilder(status_code), CONTENT_LENGTH_NAME, ToDecimal(BodyLen(body))),
            CONTENT_TYPE_NAME, TEXT_PLAIN),
        body)

\* content_type is an Option<&str>
binary_response(status_code, content_type, body) ==
    LET r0 == ResponseHeader(ResponseBuilder(status_code), CONTENT_LENGTH_NAME, ToDecimal(BodyLen(body)))
        r1 == IF content_type # None THEN ResponseHeader(r0, CONTENT_TYPE_NAME, content_type[1]) ELSE r0
    IN  ResponseBody(r1, body)

\* HeaderMap::keys(): each name once
HeaderKeys(headers) == {headers[i].name : i \in 1..Len(headers)}

\* keys.sort_by_key(|h| h.as_str()): the names in ascending byte order
RECURSIVE SortKeys(_)
SortKeys(S) ==
    IF S = {} THEN <<>>
    ELSE LET m == CHOOSE x \in S : \A y \in S : y = x \/ StrLess(x, y)
         IN  <<m>> \o SortKeys(S \ {m})

\* HeaderValue::to_str succeeds on visible ASCII, space and tab only
IsVisibleAscii(s) == \A i \in 1..Len(s) : (s[i] >= 32 /\ s[i] < 127) \/ s[i] = 9

\* the loop over the sorted keys: one line per key, with headers.get(key)
RECURSIVE HeaderLines(_, _)
HeaderLines(headers, keys) ==
    IF keys = <<>> THEN <<>>
    ELSE Head(keys) \o <<58, 32>> (* ': ' *) \o HeaderGet(headers, Head(keys))[1] \o <<10>> (* '\n' *)
         \o HeaderLines(headers, Tail(keys))

StatusLine(code) ==
    STATUS_PREFIX \o ToDecimal(code)
    \o (IF CanonicalReason(code) # None THEN <<32>> (* ' ' *) \o CanonicalReason(code)[1] ELSE <<>>)
    \o <<10>> (* '\n' *)

\* serialize_response: None stands for the panic of to_str().unwrap()
serialize_response(resp) ==
    LET keys == SortKeys(HeaderKeys(resp.headers))
    IN  IF \E i \in 1..Len(keys) : ~IsVisibleAscii(HeaderGet(resp.headers, keys[i])[1])
        THEN None
        ELSE Some(StatusLine(resp.status) \o HeaderLines(resp.headers, keys) \o <<10>> (* '\n' *) \o resp.body)

(***************************************************************************)
(* handle: reading CONTENT_LENGTH and the body.                            *)
(***************************************************************************)
USIZE_MAX == <<49, 56, 52, 52, 54, 55, 52, 52, 48, 55, 51, 55, 48, 57, 53, 53, 49, 54, 49, 53>> (* '18446744073709551615' *)

RECURSIVE StripZeros(_)
StripZeros(d) == IF d # <<>> /\ d[1] = 48 THEN StripZeros(Tail(d)) ELSE d

\* whether the digits d (no leading zero) denote a number above usize::MAX
Overflows(d) == Len(d) > Len(USIZE_MAX) \/ (Len(d) = Len(USIZE_MAX) /\ StrLess(USIZE_MAX, d))

RECURSIVE DigitsValue(_)
DigitsValue(d) == IF d = <<>> THEN 0 ELSE 10 * DigitsValue(SubSeq(d, 1, Len(d) - 1)) + (d[Len(d)] - 48)

\* str::parse::<usize>: an optional '+', then one or more digits, no overflow
ParseUsize(s) ==
    LET d == IF s # <<>> /\ s[1] = 43 THEN Tail(s) ELSE s
    IN  IF d = <<>> \/ \E i \in 1..Len(d) : d[i] \notin 48..57 THEN None
        ELSE IF Overflows(StripZeros(d)) THEN None
        ELSE Some(DigitsValue(StripZeros(d)))

\* env_vars.get("CONTENT_LENGTH").and_then(|cl| cl.parse::<usize>().ok()).unwrap_or(0)
ContentLength(env) ==
    IF CONTENT_LENGTH \notin DOMAIN env THEN 0
    ELSE IF ParseUsize(env[CONTENT_LENGTH]) = None THEN 0
    ELSE ParseUsize(env[CONTENT_LENGTH])[1]

(***************************************************************************)
(* The closure handle() is given: inner_main itself, or, when inner_main   *)
(* returns a Result, the closure #[cgi::main] generates around it.         *)
(***************************************************************************)
\* eprintln!("{:?}", err) of a String: the text in double quotes
DebugFmt(err) == <<34>> (* '\"' *) \o err \o <<34>> (* '\"' *)

\* mutant: the failure value is sent to the client as the body of the 500
ResultClosureLeaky(result) ==
    IF result.kind = "ok" THEN [response |-> Some(result.resp), log |-> None]
    ELSE [response |-> string_response(500, result.err), log |-> Some(DebugFmt(result.err))]

\* match inner_main(request) { Ok(resp) => resp, Err(err) => { eprintln!; empty_response(500) } }
ResultClosure(result) ==
    IF result.kind = "ok" THEN [response |-> Some(result.resp), log |-> None]
    ELSE [response |-> empty_response(500), log |-> Some(DebugFmt(result.err))]

\* err_to_500: res.unwrap_or(empty_response(500)), for a handler to call itself
err_to_500(res) == IF res.kind = "ok" THEN Some(res.resp) ELSE empty_response(500)

\* cgi::handle(inner_main): the response is the handler's
PlainClosure(result) == [response |-> Some(result.resp), log |-> None]

Dispatch(w, result) == IF w = "result" THEN ResultClosure(result) ELSE PlainClosure(result)

(***************************************************************************)
(* Inputs: environments, stdin streams, handler results, responses.        *)
(***************************************************************************)
\* the environment holding the pairs <<name, Option value>> whose value is Some
MkEnv(pairs) ==
    LET present == {p \in pairs : p[2] # None}
    IN  [k \in {p[1] : p \in present} |-> (CHOOSE p \in present : p[1] = k)[2][1]]

HTTP_X_A == <<72, 84, 84, 80, 95, 88, 95, 65>> (* 'HTTP_X_A' *)
HTTP_X_DASH_A == <<72, 84, 84, 80, 95, 88, 45, 65>> (* 'HTTP_X-A' *)
HTTP_X_CGI_REMOTE_USER == <<72, 84, 84, 80, 95, 88, 95, 67, 71, 73, 95, 82, 69, 77, 79, 84, 69, 95, 85, 83, 69, 82>> (* 'HTTP_X_CGI_REMOTE_USER' *)

\* the environments parse_request is applied to
ParseEnvs ==
    { MkEnv({<<REQUEST_METHOD, m>>, <<SCRIPT_NAME, s>>, <<PATH_INFO, p>>, <<QUERY_STRING, q>>,
             <<SERVER_PROTOCOL, v>>, <<HTTP_X_A, h1>>, <<HTTP_X_DASH_A, h2>>,
             <<HTTP_X_CGI_REMOTE_USER, h3>>, <<REMOTE_USER, u>>}) :
        m \in {None, Some(<<71, 69, 84>> (* 'GET' *)), Some(<<>> (* '' *))},
        s \in {None, Some(<<>> (* '' *)), Some(<<47, 115>> (* '/s' *))},
        p \in {None, Some(<<>> (* '' *)), Some(<<47, 112>> (* '/p' *)), Some(<<47, 112, 63, 120>> (* '/p?x' *))},
        q \in {None, Some(<<>> (* '' *)), Some(<<97, 61, 98>> (* 'a=b' *))},
        v \in {None, Some(<<72, 84, 84, 80, 47, 48, 46, 57>> (* 'HTTP/0.9' *)), Some(<<72, 84, 84, 80, 47, 49, 46, 48>> (* 'HTTP/1.0' *)), Some(<<72, 84, 84, 80, 47, 49, 46, 49>> (* 'HTTP/1.1' *)),
               Some(<<72, 84, 84, 80, 47, 50, 46, 48>> (* 'HTTP/2.0' *)), Some(<<72, 84, 84, 80, 47, 50>> (* 'HTTP/2' *)), Some(<<72, 84, 84, 80, 47, 51, 46, 48>> (* 'HTTP/3.0' *))},
        h1 \in {None, Some(<<118>> (* 'v' *)), Some(<<32, 118, 9>> (* ' v\t' *)), Some(<<97, 10, 98>> (* 'a\nb' *))},
        h2 \in {None, Some(<<119>> (* 'w' *))},
        h3 \in {None, Some(<<101, 118, 105, 108>> (* 'evil' *))},
        u \in {None, Some(<<98, 111, 98>> (* 'bob' *))} }

\* the environments a run of handle starts in
HandleEnvs ==
    { MkEnv({<<REQUEST_METHOD, m>>, <<SCRIPT_NAME, Some(<<47, 115>> (* '/s' *))>>, <<SERVER_PROTOCOL, v>>,
             <<CONTENT_LENGTH, c>>, <<HTTP_X_A, h1>>}) :
        m \in {None, Some(<<71, 69, 84>> (* 'GET' *))},
        v \in {None, Some(<<72, 84, 84, 80, 47, 49, 46, 49>> (* 'HTTP/1.1' *)), Some(<<72, 84, 84, 80, 47, 51, 46, 48>> (* 'HTTP/3.0' *))},
        c \in {None, Some(<<48>> (* '0' *)), Some(<<50>> (* '2' *)), Some(<<43, 49>> (* '+1' *)), Some(<<48, 48, 51>> (* '003' *)), Some(<<>> (* '' *)),
               Some(<<97, 98, 99>> (* 'abc' *)), Some(<<45, 49>> (* '-1' *)), Some(<<32, 50>> (* ' 2' *)), Some(<<57, 57, 57, 57, 57, 57, 57, 57, 57, 57, 57, 57, 57, 57, 57, 57, 57, 57, 57, 57>> (* '99999999999999999999' *))},
        h1 \in {None, Some(<<118>> (* 'v' *)), Some(<<97, 10, 98>> (* 'a\nb' *))} }

\* stdin holding the n bytes 'A', 'B', 'C', ...
StdinStreams == {[i \in 1..n |-> 64 + i] : n \in 0..MaxStdin}

SET_COOKIE == <<115, 101, 116, 45, 99, 111, 111, 107, 105, 101>> (* 'set-cookie' *)

\* what a handler may return; the Err values are those of a Result handler
HandlerResults(w) ==
    {[kind |-> "ok", resp |-> r[1], err |-> <<>>] :
        r \in {empty_response(404),
               text_response(200, <<72, 105>> (* 'Hi' *)),
               ResponseBody(ResponseHeader(ResponseBuilder(200), SET_COOKIE, <<97, 61, 233>>), <<>>)}}
    \cup (IF w = "result"
          THEN {[kind |-> "err", resp |-> <<>>, err |-> e] : e \in {<<98, 111, 111, 109>> (* 'boom' *), <<83, 116, 97, 116, 117, 115, 58, 32, 50, 48, 48, 32, 79, 75>> (* 'Status: 200 OK' *)}}
          ELSE {})

(***************************************************************************)
(* handle(), one action per statement.                                     *)
(***************************************************************************)
\* let env_vars: HashMap<String, String> = std::env::vars().collect();
CaptureEnv ==
    /\ pc = "start"
    /\ env_vars' = environ
    /\ trace' = Append(trace, "env")
    /\ pc' = "env"
    /\ UNCHANGED <<environ, stdin_stream, consumed, wrapper, stdin_contents, request,
                   handler_result, response, output, stdout, stderr, fatal>>

\* mutant: read_to_end, which takes everything stdin holds
ReadCountToEnd(stream, n) == Len(stream)

\* how many bytes read_exact takes from a stream for a buffer of n bytes
ReadCount(stream, n) == IF Len(stream) >= n THEN n ELSE Len(stream)

\* let mut stdin_contents = vec![0; content_length];
\* stdin().read_exact(&mut stdin_contents).unwrap();
ReadBody ==
    /\ pc = "env"
    /\ LET content_length == ContentLength(env_vars)
           taken == ReadCount(stdin_stream, content_length)
       IN  /\ consumed' = consumed + taken
           /\ stdin_stream' = SubSeq(stdin_stream, taken + 1, Len(stdin_stream))
           /\ IF Len(stdin_stream) >= content_length
              THEN /\ stdin_contents' = SubSeq(stdin_stream, 1, taken)
                   /\ pc' = "read"
                   /\ fatal' = fatal
              ELSE /\ stdin_contents' = stdin_contents
                   /\ pc' = "fatal"
                   /\ fatal' = Some("short read")
    /\ trace' = Append(trace, "stdin")
    /\ UNCHANGED <<environ, wrapper, env_vars, request, handler_result, response, output,
                   stdout, stderr>>

\* let request = parse_request(env_vars, stdin_contents);
BuildRequest ==
    /\ pc = "read"
    /\ \E order \in Orders(HttpKeys(env_vars)) :
         LET r == parse_request(env_vars, stdin_contents, order)
         IN  IF r.ok
             THEN /\ request' = r.req
                  /\ pc' = "built"
                  /\ fatal' = fatal
             ELSE /\ request' = request
                  /\ pc' = "fatal"
                  /\ fatal' = Some(r.panic)
    /\ trace' = Append(trace, "build")
    /\ UNCHANGED <<environ, stdin_stream, consumed, wrapper, env_vars, stdin_contents,
                   handler_result, response, output, stdout, stderr>>

\* let response = func(request);
InvokeHandler ==
    /\ pc = "built"
    /\ \E result \in HandlerResults(wrapper) :
         LET d == Dispatch(wrapper, result)
         IN  /\ handler_result' = Some(result)
             /\ response' = d.response
             /\ stderr' = IF d.log # None THEN Append(stderr, d.log[1]) ELSE stderr
    /\ trace' = Append(trace, "handler")
    /\ pc' = "handled"
    /\ UNCHANGED <<environ, stdin_stream, consumed, wrapper, env_vars, stdin_contents,
                   request, output, stdout, fatal>>

\* let output = serialize_response(response);
Serialize ==
    /\ pc = "handled"
    /\ LET o == serialize_response(response[1])
       IN  IF o # None
           THEN /\ output' = o
                /\ pc' = "serialized"
                /\ fatal' = fatal
           ELSE /\ output' = output
                /\ pc' = "fatal"
                /\ fatal' = Some("header value is not visible ASCII")
    /\ trace' = Append(trace, "serialize")
    /\ UNCHANGED <<environ, stdin_stream, consumed, wrapper, env_vars, stdin_contents,
                   request, handler_result, response, stdout, stderr>>

\* mutant: the write does not end the run, so it can happen again
WriteStdoutAgain ==
    /\ pc = "serialized"
    /\ stdout' = stdout \o output[1]
    /\ trace' = Append(trace, "write")
    /\ pc' = IF Len(trace) < 6 THEN "serialized" ELSE "done"
    /\ UNCHANGED <<environ, stdin_stream, consumed, wrapper, env_vars, stdin_contents,
                   request, handler_result, response, output, stderr, fatal>>

\* std::io::stdout().write_all(&output).unwrap();
WriteStdout ==
    /\ pc = "serialized"
    /\ stdout' = stdout \o output[1]
    /\ trace' = Append(trace, "write")
    /\ pc' = "done"
    /\ UNCHANGED <<environ, stdin_stream, consumed, wrapper, env_vars, stdin_contents,
                   request, handler_result, response, output, stderr, fatal>>

Init ==
    /\ pc = "start"
    /\ environ \in HandleEnvs
    /\ stdin_stream \in StdinStreams
    /\ consumed = 0
    /\ wrapper \in {"plain", "result"}
    /\ env_vars = <<>>
    /\ stdin_contents = <<>>
    /\ request = None
    /\ handler_result = None
    /\ response = None
    /\ output = None
    /\ stdout = <<>>
    /\ stderr = <<>>
    /\ trace = <<>>
    /\ fatal = None

Next ==
    \/ CaptureEnv
    \/ ReadBody
    \/ BuildRequest
    \/ InvokeHandler
    \/ Serialize
    \/ WriteStdout

Spec == Init /\ [][Next]_vars

(***************************************************************************)
(* parse_request applied to a map and a body directly, as its test does.   *)
(***************************************************************************)
InitParse ==
    /\ pc = "read"
    /\ environ \in ParseEnvs
    /\ env_vars = environ
    /\ stdin_contents \in {<<>>, <<65>>}
    /\ stdin_stream = <<>>
    /\ consumed = Len(stdin_contents)
    /\ wrapper = "plain"
    /\ request = None
    /\ handler_result = None
    /\ response = None
    /\ output = None
    /\ stdout = <<>>
    /\ stderr = <<>>
    /\ trace = <<"env", "stdin">>
    /\ fatal = None

NextParse == BuildRequest

SpecParse == InitParse /\ [][NextParse]_vars

(***************************************************************************)
(* serialize_response applied to a response directly, as its tests do.     *)
(***************************************************************************)
\* the header entries a response under test may carry
ResponseEntries ==
    {[name |-> n, value |-> v] :
        n \in {<<99, 111, 110, 116, 101, 110, 116, 45, 116, 121, 112, 101>> (* 'content-type' *), <<99, 111, 110, 116, 101, 110, 116, 45, 108, 97, 110, 103, 117, 97, 103, 101>> (* 'content-language' *), <<99, 97, 99, 104, 101, 45, 99, 111, 110, 116, 114, 111, 108>> (* 'cache-control' *), SET_COOKIE},
        v \in {<<97>> (* 'a' *), <<98>> (* 'b' *), <<97, 61, 233>>}}

RECURSIVE SeqsUpTo(_, _)
SeqsUpTo(S, n) ==
    IF n = 0 THEN {<<>>}
    ELSE LET shorter == SeqsUpTo(S, n - 1)
         IN  shorter \cup {Append(s, x) : s \in {t \in shorter : Len(t) = n - 1}, x \in S}

SerializeResponses ==
    {[status |-> c, headers |-> h, body |-> b] :
        c \in {200, 299, 404, 500},
        h \in SeqsUpTo(ResponseEntries, MaxRespHeaders),
        b \in {<<>> (* '' *), <<72, 101, 108, 108, 111, 32, 87, 111, 114, 108, 100>> (* 'Hello World' *)}}

InitSerialize ==
    /\ pc = "handled"
    /\ response \in {Some(r) : r \in SerializeResponses}
    /\ handler_result = None
    /\ environ = <<>>
    /\ env_vars = <<>>
    /\ stdin_stream = <<>>
    /\ consumed = 0
    /\ wrapper = "plain"
    /\ stdin_contents = <<>>
    /\ request = None
    /\ output = None
    /\ stdout = <<>>
    /\ stderr = <<>>
    /\ trace = <<>>
    /\ fatal = None

NextSerialize == Serialize

SpecSerialize == InitSerialize /\ [][NextSerialize]_vars

(***************************************************************************)
(* The response shortcuts called directly and their result serialized, as  *)
(* test_shortcuts1 and test_shortcuts2 do.                                 *)
(***************************************************************************)
ShortcutStatuses == {99, 200, 404, 500, 1000}

\* n copies of the bytes of one character
RECURSIVE Repeat(_, _)
Repeat(c, n) == IF n = 0 THEN <<>> ELSE c \o Repeat(c, n - 1)

\* bodies of 'A's (one byte each) and of 'e-acute's (two bytes each)
ShortcutBodies == {Repeat(c, n) : c \in {<<65>>, <<195, 169>>}, n \in 0..MaxBodyChars}

ShortcutContentTypes == {None, Some(<<105, 109, 97, 103, 101, 47, 112, 110, 103>> (* 'image/png' *)), Some(<<97, 10, 98>> (* 'a\nb' *)), Some(<<195, 169>>)}

\* the call a test makes, recorded in handler_result
CallRecord(fn, status_code, content_type, body) ==
    [kind |-> "call", fn |-> fn, status |-> status_code, content_type |-> content_type,
     body |-> body]

CallEmptyResponse ==
    /\ pc = "call"
    /\ \E s \in ShortcutStatuses :
         /\ handler_result' = Some(CallRecord("empty_response", s, None, <<>>))
         /\ response' = empty_response(s)
         /\ pc' = IF empty_response(s) # None THEN "handled" ELSE "fatal"
         /\ fatal' = IF empty_response(s) # None THEN fatal ELSE Some("response builder error")
    /\ trace' = Append(trace, "handler")
    /\ UNCHANGED <<environ, stdin_stream, consumed, wrapper, env_vars, stdin_contents,
                   request, output, stdout, stderr>>

CallHtmlResponse ==
    /\ pc = "call"
    /\ \E s \in ShortcutStatuses, b \in ShortcutBodies :
         /\ handler_result' = Some(CallRecord("html_response", s, None, b))
         /\ response' = html_response(s, b)
         /\ pc' = IF html_response(s, b) # None THEN "handled" ELSE "fatal"
         /\ fatal' = IF html_response(s, b) # None THEN fatal ELSE Some("response builder error")
    /\ trace' = Append(trace, "handler")
    /\ UNCHANGED <<environ, stdin_stream, consumed, wrapper, env_vars, stdin_contents,
                   request, output, stdout, stderr>>

CallStringResponse ==
    /\ pc = "call"
    /\ \E s \in ShortcutStatuses, b \in ShortcutBodies :
         /\ handler_result' = Some(CallRecord("string_response", s, None, b))
         /\ response' = string_response(s, b)
         /\ pc' = IF string_response(s, b) # None THEN "handled" ELSE "fatal"
         /\ fatal' = IF string_response(s, b) # None THEN fatal ELSE Some("response builder error")
    /\ trace' = Append(trace, "handler")
    /\ UNCHANGED <<environ, stdin_stream, consumed, wrapper, env_vars, stdin_contents,
                   request, output, stdout, stderr>>

CallTextResponse ==
    /\ pc = "call"
    /\ \E s \in ShortcutStatuses, b \in ShortcutBodies :
         /\ handler_result' = Some(CallRecord("text_response", s, None, b))
         /\ response' = text_response(s, b)
         /\ pc' = IF text_response(s, b) # None THEN "handled" ELSE "fatal"
         /\ fatal' = IF text_response(s, b) # None THEN fatal ELSE Some("response builder error")
    /\ trace' = Append(trace, "handler")
    /\ UNCHANGED <<environ, stdin_stream, consumed, wrapper, env_vars, stdin_contents,
                   request, output, stdout, stderr>>

CallBinaryResponse ==
    /\ pc = "call"
    /\ \E s \in ShortcutStatuses, ct \in ShortcutContentTypes, b \in ShortcutBodies :
         /\ handler_result' = Some(CallRecord("binary_response", s, ct, b))
         /\ response' = binary_response(s, ct, b)
         /\ pc' = IF binary_response(s, ct, b) # None THEN "handled" ELSE "fatal"
         /\ fatal' = IF binary_response(s, ct, b) # None THEN fatal ELSE Some("response builder error")
    /\ trace' = Append(trace, "handler")
    /\ UNCHANGED <<environ, stdin_stream, consumed, wrapper, env_vars, stdin_contents,
                   request, output, stdout, stderr>>

InitShortcuts ==
    /\ pc = "call"
    /\ response = None
    /\ handler_result = None
    /\ environ = <<>>
    /\ env_vars = <<>>
    /\ stdin_stream = <<>>
    /\ consumed = 0
    /\ wrapper = "plain"
    /\ stdin_contents = <<>>
    /\ request = None
    /\ output = None
    /\ stdout = <<>>
    /\ stderr = <<>>
    /\ trace = <<>>
    /\ fatal = None

NextShortcuts ==
    \/ CallEmptyResponse
    \/ CallHtmlResponse
    \/ CallStringResponse
    \/ CallTextResponse
    \/ CallBinaryResponse
    \/ Serialize

SpecShortcuts == InitShortcuts /\ [][NextShortcuts]_vars

(***************************************************************************)
(* Claims about parse_request (checked under SpecParse).                   *)
(***************************************************************************)
\* what HTTP allows a meta-variable set to hold: a method that is a token and
\* HTTP_ values without control characters
WellFormedEnv(env) ==
    /\ REQUEST_METHOD \in DOMAIN env => IsToken(env[REQUEST_METHOD])
    /\ \A k \in HttpKeys(env) : IsToken(DeriveHeaderName(k)) /\ IsHeaderValue(Trim(env[k]))

\* the protocol table of the claim: each string with the version it names
C1_VersionOf(v) ==
    CASE v = <<72, 84, 84, 80, 47, 48, 46, 57>> (* 'HTTP/0.9' *) -> "HTTP_09"
      [] v = <<72, 84, 84, 80, 47, 49, 46, 48>> (* 'HTTP/1.0' *) -> "HTTP_10"
      [] v = <<72, 84, 84, 80, 47, 49, 46, 49>> (* 'HTTP/1.1' *) -> "HTTP_11"
      [] v = <<72, 84, 84, 80, 47, 50, 46, 48>> (* 'HTTP/2.0' *) -> "HTTP_2"
      [] OTHER -> "none"

\* C1: for every (well-formed) meta-variable set holding REQUEST_METHOD,
\* SCRIPT_NAME, PATH_INFO, QUERY_STRING and one of the four SERVER_PROTOCOL
\* strings, parse_request returns a Request whose path is SCRIPT_NAME followed
\* by PATH_INFO, whose query is QUERY_STRING when that is non-empty and absent
\* otherwise, and whose version is the one the table gives.
C1_PathQueryVersion ==
    ( /\ pc # "read"
      /\ {REQUEST_METHOD, SCRIPT_NAME, PATH_INFO, QUERY_STRING, SERVER_PROTOCOL} \subseteq DOMAIN env_vars
      /\ C1_VersionOf(env_vars[SERVER_PROTOCOL]) # "none"
      /\ WellFormedEnv(env_vars) )
    => /\ pc = "built"
       /\ request # None
       /\ request[1].path = env_vars[SCRIPT_NAME] \o env_vars[PATH_INFO]
       /\ request[1].query = (IF env_vars[QUERY_STRING] # <<>> THEN Some(env_vars[QUERY_STRING]) ELSE None)
       /\ request[1].version = C1_VersionOf(env_vars[SERVER_PROTOCOL])

\* C2 as stated: whenever SERVER_PROTOCOL is not one of the four strings,
\* be it another value or absent, request construction is fatal and no Request
\* is produced.
C2_AbsentOrUnknownIsFatal ==
    ( /\ pc # "read"
      /\ \/ SERVER_PROTOCOL \notin DOMAIN env_vars
         \/ C1_VersionOf(env_vars[SERVER_PROTOCOL]) = "none" )
    => pc = "fatal" /\ request = None

\* C2 as amended: a SERVER_PROTOCOL that is present and not one of the four
\* strings is fatal and no Request is produced; an absent SERVER_PROTOCOL is
\* not fatal on that account, and a Request that is built then has the
\* builder's default version, HTTP/1.1.
C2_UnknownIsFatalAbsentIsDefault ==
    /\ ( /\ pc # "read"
         /\ SERVER_PROTOCOL \in DOMAIN env_vars
         /\ C1_VersionOf(env_vars[SERVER_PROTOCOL]) = "none" )
       => pc = "fatal" /\ request = None
    /\ ( /\ pc # "read"
         /\ SERVER_PROTOCOL \notin DOMAIN env_vars )
       => /\ pc = "built" => request[1].version = "HTTP_11"
          /\ pc = "fatal" => fatal # Some("unsupported SERVER_PROTOCOL")

C2_Witness ==
    /\ pc = "fatal"
    /\ fatal = Some("unsupported SERVER_PROTOCOL")
    /\ env_vars[SERVER_PROTOCOL] = <<72, 84, 84, 80, 47, 50>> (* 'HTTP/2' *)
    /\ request = None

\* the number of entries of headers with this name and value
CountEntries(headers, n, v) ==
    Cardinality({i \in 1..Len(headers) : headers[i].name = n /\ headers[i].value = v})

\* C9: in a built Request every HTTP_ variable has its own header entry, named
\* by the variable name without the prefix and with '-' for '_' (header names
\* compare case-insensitively) and holding the trimmed value; variables that
\* derive the same name give as many entries; the only other entries are the
\* X-CGI- ones of the sixteen listed meta-variables.
C9_HttpVariablesBecomeHeaders ==
    pc = "built" =>
        LET hs == request[1].headers
            names == {Lower(DeriveHeaderName(k)) : k \in HttpKeys(env_vars)}
                     \cup {Lower(CgiHeaderTable[i][2]) : i \in 1..Len(CgiHeaderTable)}
                     \cup {hs[i].name : i \in 1..Len(hs)}
            values == {Trim(env_vars[k]) : k \in HttpKeys(env_vars)}
                      \cup {env_vars[k] : k \in DOMAIN env_vars}
                      \cup {hs[i].value : i \in 1..Len(hs)}
        IN  \A n \in names, v \in values :
                CountEntries(hs, n, v) =
                    Cardinality({k \in HttpKeys(env_vars) :
                                    Lower(DeriveHeaderName(k)) = n /\ Trim(env_vars[k]) = v})
                    + Cardinality({i \in 1..Len(CgiHeaderTable) :
                                    /\ CgiHeaderTable[i][1] \in DOMAIN env_vars
                                    /\ Lower(CgiHeaderTable[i][2]) = n
                                    /\ env_vars[CgiHeaderTable[i][1]] = v})

C9_Witness ==
    /\ pc = "built"
    /\ HTTP_X_A \in DOMAIN env_vars
    /\ env_vars[HTTP_X_A] = <<32, 118, 9>> (* ' v\t' *)
    /\ HTTP_X_DASH_A \in DOMAIN env_vars
    /\ CountEntries(request[1].headers, <<120, 45, 97>> (* 'x-a' *), <<118>> (* 'v' *)) = 1
    /\ CountEntries(request[1].headers, <<120, 45, 97>> (* 'x-a' *), <<119>> (* 'w' *)) = 1
    /\ request[1].headers[1].value = <<119>> (* 'w' *)

\* C10: looking up a header X-CGI-<Name> in the built Request gives the
\* verbatim value of the corresponding meta-variable when that is present and
\* no header when it is absent, whatever HTTP_ variables the set holds.
C10_CgiHeadersIgnoreHttpVariables ==
    pc = "built" =>
        \A i \in 1..Len(CgiHeaderTable) :
            HeaderGet(request[1].headers, CgiHeaderTable[i][2]) =
                (IF CgiHeaderTable[i][1] \in DOMAIN env_vars
                 THEN Some(env_vars[CgiHeaderTable[i][1]]) ELSE None)

(***************************************************************************)
(* Claims about handle (checked under Spec).                               *)
(***************************************************************************)
\* C3: when the environment holds no REQUEST_METHOD, whatever else it holds
\* and whatever the body, no Request is produced, the handler is never invoked
\* and nothing is written to stdout: the run ends fatally in parse_request.
C3_NoMethodIsFatal ==
    REQUEST_METHOD \notin DOMAIN environ =>
        /\ request = None
        /\ handler_result = None
        /\ response = None
        /\ stdout = <<>>
        /\ \A i \in 1..Len(trace) : trace[i] \notin {"handler", "serialize", "write"}
        /\ pc \in {"start", "env", "read", "fatal"}
        /\ (Len(trace) >= 3 /\ trace[3] = "build") => pc = "fatal"

C3_Witness ==
    /\ pc = "fatal"
    /\ fatal = Some("no REQUEST_METHOD set")
    /\ REQUEST_METHOD \notin DOMAIN environ
    /\ SERVER_PROTOCOL \in DOMAIN environ
    /\ consumed = 2

\* the empty 500 response as bytes on stdout
C6_Empty500 == <<83, 116, 97, 116, 117, 115, 58, 32, 53, 48, 48, 32, 73, 110, 116, 101, 114, 110, 97, 108, 32, 83, 101, 114, 118, 101, 114, 32, 69, 114, 114, 111, 114, 10, 10>> (* 'Status: 500 Internal Server Error\n\n' *)

\* C6: once the handler has returned a failure value, that value is on stderr,
\* the response is the empty 500 response, the run goes on to serialization
\* and to the write, and stdout receives the bytes of the empty 500 response,
\* the same for every failure value.
C6_HandlerFailureBecomes500 ==
    (handler_result # None /\ handler_result[1].kind = "err") =>
        /\ stderr = <<DebugFmt(handler_result[1].err)>>
        /\ response = Some([status |-> 500, headers |-> <<>>, body |-> <<>>])
        /\ response = err_to_500(handler_result[1])
        /\ pc \in {"handled", "serialized", "done"}
        /\ pc = "handled" => serialize_response(response[1]) = Some(C6_Empty500)
        /\ pc = "serialized" => output = Some(C6_Empty500)
        /\ stdout = (IF pc = "done" THEN C6_Empty500 ELSE <<>>)

C6_Witness ==
    /\ pc = "done"
    /\ handler_result # None
    /\ handler_result[1].kind = "err"
    /\ handler_result[1].err = <<83, 116, 97, 116, 117, 115, 58, 32, 50, 48, 48, 32, 79, 75>> (* 'Status: 200 OK' *)
    /\ stdout = C6_Empty500
    /\ Len(stderr) = 1

\* the number CONTENT_LENGTH stands for, for the values the model draws: the
\* decimal number, with an optional '+' and leading zeros, and 0 otherwise
C7_N(env) ==
    IF CONTENT_LENGTH \notin DOMAIN env THEN 0
    ELSE CASE env[CONTENT_LENGTH] = <<48>> (* '0' *) -> 0
           [] env[CONTENT_LENGTH] = <<50>> (* '2' *) -> 2
           [] env[CONTENT_LENGTH] = <<43, 49>> (* '+1' *) -> 1
           [] env[CONTENT_LENGTH] = <<48, 48, 51>> (* '003' *) -> 3
           [] OTHER -> 0

\* C7: handle never takes more than N bytes from stdin, N being the number
\* CONTENT_LENGTH stands for (0 when absent or unparseable); when stdin holds
\* at least N bytes it takes exactly the first N, leaves the rest unread and
\* hands exactly those N bytes to parse_request; when stdin holds fewer the
\* run is fatal, no body is passed on and the handler is never invoked.
C7_ReadsExactlyContentLength ==
    LET n == C7_N(environ)
        total == consumed + Len(stdin_stream)
    IN  /\ consumed <= n
        /\ pc \in {"start", "env"} => consumed = 0
        /\ pc \notin {"start", "env"} =>
             IF total >= n
             THEN /\ consumed = n
                  /\ fatal # Some("short read")
                  /\ stdin_contents = [i \in 1..n |-> 64 + i]
                  /\ stdin_stream = [i \in 1..(total - n) |-> 64 + n + i]
                  /\ request # None => request[1].body = stdin_contents
             ELSE /\ pc = "fatal"
                  /\ fatal = Some("short read")
                  /\ stdin_contents = <<>>
                  /\ request = None
                  /\ handler_result = None

C7_Witness ==
    /\ pc = "done"
    /\ CONTENT_LENGTH \in DOMAIN environ
    /\ environ[CONTENT_LENGTH] = <<50>> (* '2' *)
    /\ consumed = 2
    /\ request[1].body = <<65, 66>> (* 'AB' *)
    /\ stdin_stream = <<67>> (* 'C' *)

C7_WitnessShortRead ==
    /\ pc = "fatal"
    /\ CONTENT_LENGTH \in DOMAIN environ
    /\ environ[CONTENT_LENGTH] = <<48, 48, 51>> (* '003' *)
    /\ consumed = 2

FullTrace == <<"env", "stdin", "build", "handler", "serialize", "write">>

\* where a run that has not aborted stands after so many steps
PcAfter == <<"env", "read", "built", "handled", "serialized", "done">> @@ (0 :> "start")

IsPrefix(a, b) == Len(a) <= Len(b) /\ SubSeq(b, 1, Len(a)) = a

\* the aborts the specification calls invocation errors
InvocationErrors ==
    {Some("no REQUEST_METHOD set"), Some("no SCRIPT_NAME"),
     Some("unsupported SERVER_PROTOCOL"), Some("short read")}

\* C8 as stated: a run that has ended without an invocation error has done the
\* six steps once each and in order; and in no run is a step repeated or done
\* out of order, and stdout is written only by the last step.
C8_AllStepsUnlessInvocationError ==
    /\ (pc \in {"done", "fatal"} /\ fatal \notin InvocationErrors) => trace = FullTrace
    /\ IsPrefix(trace, FullTrace)
    /\ stdout # <<>> => pc = "done"

\* C8 as amended: a run that does not abort at all (neither with an invocation
\* error, nor in building the request, nor in serializing the response) does
\* the six steps once each and in order; and in no run is a step repeated or
\* done out of order, and stdout is written only by the last step.
C8_AllStepsUnlessAborted ==
    /\ pc = "done" => trace = FullTrace
    /\ pc # "fatal" => pc = PcAfter[Len(trace)] /\ fatal = None
    /\ pc = "fatal" => fatal # None
    /\ IsPrefix(trace, FullTrace)
    /\ stdout # <<>> => pc = "done"

C8_Witness ==
    /\ pc = "done"
    /\ trace = FullTrace
    /\ stdout # <<>>
    /\ fatal = None

(***************************************************************************)
(* Claims about the response shortcuts (checked under SpecShortcuts).      *)
(***************************************************************************)
\* the entries of headers under a name
EntriesNamed(headers, n) == {i \in 1..Len(headers) : headers[i].name = n}

\* C5: a response built by html_response, text_response, string_response or
\* binary_response has the given body and one Content-Length header, the
\* decimal number (no leading zero) of the bytes of the body; html_response
\* and text_response add Content-Type text/html; charset=utf-8 and text/plain;
\* charset=utf-8, string_response adds none, binary_response adds the content
\* type it is given, if any; empty_response has no header and an empty body;
\* and the status is the one given.
C5_ShortcutHeaders ==
    (handler_result # None /\ handler_result[1].kind = "call" /\ response # None) =>
        LET call == handler_result[1]
            r == response[1]
            cl == EntriesNamed(r.headers, <<99, 111, 110, 116, 101, 110, 116, 45, 108, 101, 110, 103, 116, 104>> (* 'content-length' *))
            ct == EntriesNamed(r.headers, <<99, 111, 110, 116, 101, 110, 116, 45, 116, 121, 112, 101>> (* 'content-type' *))
            clv == r.headers[CHOOSE i \in cl : TRUE].value
            ctv == r.headers[CHOOSE i \in ct : TRUE].value
        IN  /\ r.status = call.status
            /\ r.body = call.body
            /\ Len(r.headers) = Cardinality(cl) + Cardinality(ct)
            /\ IF call.fn = "empty_response"
               THEN r.headers = <<>> /\ r.body = <<>>
               ELSE /\ Cardinality(cl) = 1
                    /\ \A i \in 1..Len(clv) : clv[i] \in 48..57
                    /\ clv = <<48>> \/ clv[1] # 48
                    /\ DigitsValue(clv) = Len(call.body)
            /\ call.fn = "html_response" =>
                 Cardinality(ct) = 1 /\ ctv = <<116, 101, 120, 116, 47, 104, 116, 109, 108, 59, 32, 99, 104, 97, 114, 115, 101, 116, 61, 117, 116, 102, 45, 56>> (* 'text/html; charset=utf-8' *)
            /\ call.fn = "text_response" =>
                 Cardinality(ct) = 1 /\ ctv = <<116, 101, 120, 116, 47, 112, 108, 97, 105, 110, 59, 32, 99, 104, 97, 114, 115, 101, 116, 61, 117, 116, 102, 45, 56>> (* 'text/plain; charset=utf-8' *)
            /\ call.fn = "string_response" => ct = {}
            /\ call.fn = "binary_response" =>
                 IF call.content_type = None THEN ct = {}
                 ELSE Cardinality(ct) = 1 /\ ctv = call.content_type[1]

C5_Witness ==
    /\ pc = "serialized"
    /\ handler_result[1].fn = "html_response"
    /\ Len(handler_result[1].body) = 12
    /\ HeaderGet(response[1].headers, <<67, 111, 110, 116, 101, 110, 116, 45, 76, 101, 110, 103, 116, 104>> (* 'Content-Length' *)) = Some(<<49, 50>> (* '12' *))
    /\ output = Some(<<83, 116, 97, 116, 117, 115, 58, 32, 50, 48, 48, 32, 79, 75, 10, 99, 111, 110, 116, 101, 110, 116, 45, 108, 101, 110, 103, 116, 104, 58, 32, 49, 50, 10, 99, 111, 110, 116, 101, 110, 116, 45, 116, 121, 112, 101, 58, 32, 116, 101, 120, 116, 47, 104, 116, 109, 108, 59, 32, 99, 104, 97, 114, 115, 101, 116, 61, 117, 116, 102, 45, 56, 10, 10>> (* 'Status: 200 OK\ncontent-length: 12\ncontent-type: text/html; charset=utf-8\n\n' *)
                     \o handler_result[1].body)

(***************************************************************************)
(* Claims about serialize_response (checked under SpecSerialize).          *)
(***************************************************************************)
\* one line "<name>: <value>\n" for each entry of a sequence of entries
RECURSIVE C4_Lines(_)
C4_Lines(entries) ==
    IF entries = <<>> THEN <<>>
    ELSE Head(entries).name \o <<58, 32>> (* ': ' *) \o Head(entries).value \o <<10>> (* '\n' *) \o C4_Lines(Tail(entries))

\* the status line of the claim, for the codes the model draws
C4_StatusLine(code) ==
    CASE code = 200 -> <<83, 116, 97, 116, 117, 115, 58, 32, 50, 48, 48, 32, 79, 75, 10>> (* 'Status: 200 OK\n' *)
      [] code = 299 -> <<83, 116, 97, 116, 117, 115, 58, 32, 50, 57, 57, 10>> (* 'Status: 299\n' *)
      [] code = 404 -> <<83, 116, 97, 116, 117, 115, 58, 32, 52, 48, 52, 32, 78, 111, 116, 32, 70, 111, 117, 110, 100, 10>> (* 'Status: 404 Not Found\n' *)
      [] code = 500 -> <<83, 116, 97, 116, 117, 115, 58, 32, 53, 48, 48, 32, 73, 110, 116, 101, 114, 110, 97, 108, 32, 83, 101, 114, 118, 101, 114, 32, 69, 114, 114, 111, 114, 10>> (* 'Status: 500 Internal Server Error\n' *)

\* C4: for every Response (whose header values are printable),
\* serialize_response returns the status line, one line for each header the
\* response carries, the lines in ascending order of the header name, an empty
\* line, and the body bytes, and nothing else.
C4_ExactOutput ==
    ( /\ pc # "handled"
      /\ response # None
      /\ \A i \in 1..Len(response[1].headers) : IsVisibleAscii(response[1].headers[i].value) )
    => /\ pc = "serialized"
       /\ \E o \in Orders(1..Len(response[1].headers)) :
            LET entries == [i \in 1..Len(o) |-> response[1].headers[o[i]]]
            IN  /\ \A i \in 1..(Len(entries) - 1) : ~StrLess(entries[i + 1].name, entries[i].name)
                /\ output = Some(C4_StatusLine(response[1].status) \o C4_Lines(entries)
                                 \o <<10>> (* '\n' *) \o response[1].body)

\* the part of C4 the code keeps: a response whose header names are all
\* different is written exactly as C4 says
C4_ExactOutputDistinctNames ==
    ( /\ pc # "handled"
      /\ response # None
      /\ \A i \in 1..Len(response[1].headers) : IsVisibleAscii(response[1].headers[i].value)
      /\ \A i, j \in 1..Len(response[1].headers) :
           i # j => response[1].headers[i].name # response[1].headers[j].name )
    => /\ pc = "serialized"
       /\ \E o \in Orders(1..Len(response[1].headers)) :
            LET entries == [i \in 1..Len(o) |-> response[1].headers[o[i]]]
            IN  /\ \A i \in 1..(Len(entries) - 1) : StrLess(entries[i].name, entries[i + 1].name)
                /\ output = Some(C4_StatusLine(response[1].status) \o C4_Lines(entries)
                                 \o <<10>> (* '\n' *) \o response[1].body)

====
